---- MODULE Spec2Model ----
(***************************************************************************)
(* Probability engine of the CitiBike service (src/backend/prob_calc.py):  *)
(* the station/trip store it reads, one CitiBikeProbabilityCalculator      *)
(* instance, and calculate_bike_movement_probability with the queries and  *)
(* formulas it is built from.                                              *)
(*                                                                         *)
(* Numbers the code keeps as Python floats are exact rationals <<n, d>>    *)
(* here (d > 0, lowest terms).  Strings the code inspects character by     *)
(* character (station identifiers) are sequences of one-character strings. *)
(* Timestamps are counted in half days; DOW follows PostgreSQL (0 = Sunday)*)
(***************************************************************************)
EXTENDS Integers, Sequences, FiniteSets, TLC

VARIABLES stations, station_mapping, trips, failing, station_stats, prev, last, probe,
          response

vars == <<stations, station_mapping, trips, failing, station_stats, prev, last, probe,
          response>>

(***************************************************************************)
(* Bounds of the model.                                                    *)
(***************************************************************************)
MaxTrips == 2
MaxFreq == 5
MaxProbeFreq == 11

(***************************************************************************)
(* Exact rational arithmetic standing for the float arithmetic.            *)
(***************************************************************************)
RECURSIVE GCD(_, _)
GCD(a, b) == IF b = 0 THEN a ELSE GCD(b, a % b)

Abs(x) == IF x < 0 THEN -x ELSE x

Q(n, d) ==
    LET g == GCD(Abs(n), Abs(d))
        s == IF d < 0 THEN -1 ELSE 1
    IN  <<(s * n) \div g, (s * d) \div g>>

QInt(n) == <<n, 1>>

QLe(a, b) ==
    LET g == GCD(a[2], b[2])
    IN  a[1] * (b[2] \div g) <= b[1] * (a[2] \div g)

QLt(a, b) == ~QLe(b, a)

QMul(a, b) ==
    LET x == Q(a[1], b[2])
        y == Q(b[1], a[2])
    IN  Q(x[1] * y[1], x[2] * y[2])

QAdd(a, b) ==
    LET g == GCD(a[2], b[2])
    IN  Q(a[1] * (b[2] \div g) + b[1] * (a[2] \div g), (a[2] \div g) * b[2])

QSub(a, b) == QAdd(a, <<-b[1], b[2]>>)

QMin(a, b) == IF QLe(a, b) THEN a ELSE b

QMax(a, b) == IF QLe(a, b) THEN b ELSE a

\* f"{x:.1%}": the value in per cent with one decimal, kept as the integer
\* number of tenths of a per cent (round half to even).
FormatPercent(x) ==
    LET n == 1000 * x[1]
        q == n \div x[2]
        r == n % x[2]
    IN  IF 2 * r < x[2] THEN q
        ELSE IF 2 * r > x[2] THEN q + 1
        ELSE IF q % 2 = 0 THEN q ELSE q + 1

RECURSIVE SumOver(_, _)
SumOver(S, f) ==
    IF S = {} THEN 0
    ELSE LET x == CHOOSE y \in S : TRUE
         IN  f[x] + SumOver(S \ {x}, f)

(***************************************************************************)
(* Station identifiers as character sequences.                             *)
(***************************************************************************)
TestUuid1 == <<"t","e","s","t","-","u","u","i","d","-","1">>

CanonUuid ==
    <<"6","6","d","c","1","2","0","f","-","0","a","c","a","-","1","1","e","7",
      "-","8","2","f","6","-","3","8","6","3","b","b","4","4","e","f","7","c">>

StationName1 == <<"P","i","e","r"," ","1">>

StationName2 == <<"P","a","r","k","-","A","v","e">>

TestUuidPrefix == <<"t","e","s","t","-","u","u","i","d","-">>

\* further strings a caller may hand over as home_station_id
TestUuidThreeHyphens == TestUuidPrefix \o <<"1","-","2">>

InternalIdText == <<"t","e","s","t","_","s","t","a","t","i","o","n","_","1">>

\* 36 characters in the 8-4-4-4-12 layout, none of them a hexadecimal digit
NonHexUuid == [i \in 1..36 |-> IF i \in {9, 14, 19, 24} THEN "-" ELSE "z"]

\* 36 characters with four hyphens, the first one a position early (7-5-4-4-12)
ShiftedUuid == [i \in 1..36 |-> IF i \in {8, 14, 19, 24} THEN "-" ELSE "a"]

\* 35 characters in the layout 8-4-4-4-11
ShortUuid == [i \in 1..35 |-> IF i \in {9, 14, 19, 24} THEN "-" ELSE "a"]

IdentifierStrings ==
    {<<>>, TestUuid1, TestUuidPrefix, TestUuidThreeHyphens, CanonUuid, NonHexUuid,
     ShiftedUuid, ShortUuid, StationName1, StationName2, InternalIdText}

\* str.startswith
StartsWith(s, prefix) ==
    /\ Len(s) >= Len(prefix)
    /\ SubSeq(s, 1, Len(prefix)) = prefix

\* str.count of a single character
CountChar(s, c) == Cardinality({i \in 1..Len(s) : s[i] = c})

\* str.split(sep) for a single-character separator
RECURSIVE Split(_, _)
Split(s, sep) ==
    IF \A i \in 1..Len(s) : s[i] # sep THEN <<s>>
    ELSE LET k == CHOOSE i \in 1..Len(s) :
                      /\ s[i] = sep
                      /\ \A j \in 1..(i - 1) : s[j] # sep
         IN  <<SubSeq(s, 1, k - 1)>> \o Split(SubSeq(s, k + 1, Len(s)), sep)

is_uuid_format(station_id) ==
    IF station_id = <<>> THEN FALSE
    ELSE IF StartsWith(station_id, TestUuidPrefix) /\ CountChar(station_id, "-") = 2
         THEN TRUE
    ELSE IF Len(station_id) = 36 /\ CountChar(station_id, "-") = 4
         THEN LET parts == Split(station_id, "-")
              IN  /\ Len(parts) = 5
                  /\ Len(parts[1]) = 8
                  /\ Len(parts[2]) = 4
                  /\ Len(parts[3]) = 4
                  /\ Len(parts[4]) = 4
                  /\ Len(parts[5]) = 12
    ELSE FALSE

(***************************************************************************)
(* The station/trip store: universes of the rows it may hold.              *)
(***************************************************************************)
PublicIds == {TestUuid1, CanonUuid}

StationNames == {StationName1, StationName2}

NumericIds == {"test_station_1", "test_station_2"}

Bikes == {"bike_001", "bike_002"}

HalfDay == 12 * 60

\* INTERVAL '7 days' in half days
SevenDays == 7 * 2

\* EXTRACT(DOW FROM ts): 0 is Sunday
DOW(ts) == (ts \div 2) % 7

\* stations.name and station_mapping.station_name come from the same feed
\* entry as the public id: both are fixed per public id here, and so is the
\* internal id.  The feed maps the first station only; the second one is a
\* station the mapping table does not cover.
DisplayName(u) == IF u = TestUuid1 THEN StationName1 ELSE StationName2

InternalId(u) == IF u = TestUuid1 THEN "test_station_1" ELSE "test_station_2"

StationRows == {[station_id |-> u, name |-> DisplayName(u)] : u \in PublicIds}

MappingRows ==
    {[uuid_station_id |-> u, numeric_station_id |-> InternalId(u),
      station_name |-> DisplayName(u)] : u \in {TestUuid1}}

Trip(b, s, e, t) ==
    [bike_id |-> b, start_station_id |-> s, end_station_id |-> e,
     started_at |-> t, ended_at |-> t + 1]

\* rides out of station 1 on a Monday morning (half day 2), rides back into it
\* on the Saturday after (12, within seven days of the arrival) or on the
\* Tuesday of the next week (18, later than seven days)
TripRows ==
    {Trip(b, "test_station_1", "test_station_2", 2) : b \in Bikes}
    \cup {Trip(b, "test_station_2", "test_station_1", 12) : b \in Bikes}
    \cup {Trip("bike_001", "test_station_2", "test_station_1", 18)}

\* The queries the engine issues
NameLookup == "name_lookup"
StatsQuery == "station_statistics"
MappingLookup == "mapping_lookup"
PerBikeQuery == "per_bike_aggregate"
Tier2Query == "tier2_return_rate"
Tier3Query == "tier3_fallback"

Queries == {NameLookup, StatsQuery, MappingLookup, PerBikeQuery, Tier2Query, Tier3Query}

\* Conditions of the store: which queries raise when executed
FaultScenarios ==
    {{}, {NameLookup}, {StatsQuery}, {MappingLookup}, {PerBikeQuery},
     {Tier2Query}, {Tier2Query, Tier3Query}}

TimePatterns == {"weekday", "weekend", "both", "invalid"}

\* variant: every text is taken for a time pattern
ValidTimePatterns_any == TimePatterns

\* the list calculate_bike_movement_probability validates time_pattern against
ValidTimePatterns == {"weekday", "weekend", "both"}

RequestIds == {TestUuid1, StationName1}

Frequencies == (-1)..MaxFreq

EmptyDict == [k \in {} |-> 0]

NoValue == "none"

(***************************************************************************)
(* Queries and the engine (prob_calc.py).  Every operator that executes    *)
(* queries returns the value with the queries issued, in order.            *)
(***************************************************************************)
\* db_session.execute raises: the store fails the query, or the query text is
\* invalid.  The weekday/weekend filter text names the alias t, which the
\* tier-2 and tier-3 queries (FROM trips, no alias) do not define.
QueryRaises(q, time_pattern) ==
    \/ q \in failing
    \/ /\ q \in {Tier2Query, Tier3Query}
       /\ time_pattern \in {"weekday", "weekend"}

time_filter(t, time_pattern) ==
    IF time_pattern = "weekday" THEN DOW(t.started_at) \in 1..5
    ELSE IF time_pattern = "weekend" THEN DOW(t.started_at) \in {0, 6}
    ELSE TRUE

DurationMinutes(t) == (t.ended_at - t.started_at) * HalfDay

AvgDuration(T) ==
    IF T = {} THEN QInt(0)
    ELSE Q(SumOver(T, [t \in T |-> DurationMinutes(t)]), Cardinality(T))

\* variant: the trips are joined on their end station
JoinedTrips_by_end_station(u) ==
    {t \in trips : \E m \in station_mapping :
        /\ m.uuid_station_id = u
        /\ m.numeric_station_id = t.end_station_id}

\* stations LEFT JOIN station_mapping LEFT JOIN trips, grouped by station
JoinedTrips(u) ==
    {t \in trips : \E m \in station_mapping :
        /\ m.uuid_station_id = u
        /\ m.numeric_station_id = t.start_station_id}

StatsRow(s) ==
    [station_id |-> s.station_id,
     name |-> s.name,
     total_trips |-> Cardinality(JoinedTrips(s.station_id)),
     unique_bikes |-> Cardinality({t.bike_id : t \in JoinedTrips(s.station_id)}),
     avg_trip_duration |-> AvgDuration(JoinedTrips(s.station_id))]

\* variant: an inner join, which drops the stations without departing trips
StationStatsOf_inner_join(rows) ==
    [u \in {s.station_id : s \in {x \in rows : JoinedTrips(x.station_id) # {}}} |->
        StatsRow(CHOOSE s \in rows : s.station_id = u)]

StationStatsOf(rows) ==
    [u \in {s.station_id : s \in rows} |->
        StatsRow(CHOOSE s \in rows : s.station_id = u)]

\* variant: the counts of a load are added to the ones the instance holds
load_station_statistics_accumulating ==
    IF QueryRaises(StatsQuery, "both")
    THEN [value |-> EmptyDict, cache |-> station_stats, queries |-> <<StatsQuery>>]
    ELSE LET fresh == StationStatsOf(stations)
             summed == [u \in DOMAIN fresh |->
                 IF u \in DOMAIN station_stats
                 THEN [fresh[u] EXCEPT !.total_trips = @ + station_stats[u].total_trips]
                 ELSE fresh[u]]
         IN  [value |-> summed, cache |-> summed, queries |-> <<StatsQuery>>]

\* returns the dictionary handed to the caller and the new self.station_stats
load_station_statistics ==
    IF QueryRaises(StatsQuery, "both")
    THEN [value |-> EmptyDict, cache |-> station_stats, queries |-> <<StatsQuery>>]
    ELSE [value |-> StationStatsOf(stations), cache |-> StationStatsOf(stations),
          queries |-> <<StatsQuery>>]

\* variant: the lookup selects the station_name column of the mapping row
get_uuid_by_station_name_name_column(station_name) ==
    IF QueryRaises(NameLookup, "both")
    THEN [status |-> "store_error", uuid |-> NoValue]
    ELSE LET rows == {m \in station_mapping : m.station_name = station_name}
         IN  IF rows = {}
             THEN [status |-> "not_found", uuid |-> NoValue]
             ELSE [status |-> "ok",
                   uuid |-> (CHOOSE m \in rows : TRUE).station_name]

get_uuid_by_station_name(station_name) ==
    IF QueryRaises(NameLookup, "both")
    THEN [status |-> "store_error", uuid |-> NoValue]
    ELSE LET rows == {m \in station_mapping : m.station_name = station_name}
         IN  IF rows = {}
             THEN [status |-> "not_found", uuid |-> NoValue]
             ELSE [status |-> "ok",
                   uuid |-> (CHOOSE m \in rows : TRUE).uuid_station_id]

TurnoverEstimate(total_trips, unique_bikes) ==
    QMax(QInt(0), QMin(Q(1, 2), Q(unique_bikes, total_trips)))

\* variant: the default of the failing fallback is given in percent
_calculate_bike_return_rate_fallback_percent_default(numeric_station_id, time_pattern) ==
    IF QueryRaises(Tier3Query, time_pattern)
    THEN [value |-> QInt(10), queries |-> <<Tier3Query>>]
    ELSE LET T == {t \in trips : /\ t.start_station_id = numeric_station_id
                                 /\ time_filter(t, time_pattern)}
             unique_bikes == Cardinality({t.bike_id : t \in T})
             total_trips == Cardinality(T)
         IN  [value |-> IF unique_bikes > 0
                        THEN TurnoverEstimate(total_trips, unique_bikes)
                        ELSE QInt(0),
              queries |-> <<Tier3Query>>]

_calculate_bike_return_rate_fallback(numeric_station_id, time_pattern) ==
    IF QueryRaises(Tier3Query, time_pattern)
    THEN [value |-> Q(1, 10), queries |-> <<Tier3Query>>]
    ELSE LET T == {t \in trips : /\ t.start_station_id = numeric_station_id
                                 /\ time_filter(t, time_pattern)}
             unique_bikes == Cardinality({t.bike_id : t \in T})
             total_trips == Cardinality(T)
         IN  [value |-> IF unique_bikes > 0
                        THEN TurnoverEstimate(total_trips, unique_bikes)
                        ELSE QInt(0),
              queries |-> <<Tier3Query>>]

\* bikes of station_trips with a later trip that ends at the station and
\* starts within seven days of the departure's end
ReturnTrips(station_trips, numeric_station_id) ==
    {t1.bike_id : t1 \in {x \in station_trips : \E t2 \in trips :
        /\ t2.bike_id = x.bike_id
        /\ t2.end_station_id = numeric_station_id
        /\ t2.started_at > x.ended_at
        /\ t2.started_at <= x.ended_at + SevenDays}}

\* variant: the fallback runs after tier 2 whether or not tier 2 answered
_calculate_bike_return_rate_simplified_then_fallback(numeric_station_id, time_pattern) ==
    LET fb == _calculate_bike_return_rate_fallback(numeric_station_id, time_pattern)
    IN  [value |-> fb.value, queries |-> <<Tier2Query>> \o fb.queries]

_calculate_bike_return_rate_simplified(numeric_station_id, time_pattern) ==
    IF QueryRaises(Tier2Query, time_pattern)
    THEN LET fb == _calculate_bike_return_rate_fallback(numeric_station_id, time_pattern)
         IN  [value |-> fb.value, queries |-> <<Tier2Query>> \o fb.queries]
    ELSE LET station_trips == {t \in trips :
                                  /\ t.start_station_id = numeric_station_id
                                  /\ time_filter(t, time_pattern)}
             total_bikes == Cardinality({t.bike_id : t \in station_trips})
             bikes_returning ==
                 Cardinality(ReturnTrips(station_trips, numeric_station_id))
         IN  [value |-> IF total_bikes > 0
                        THEN Q(bikes_returning, total_bikes)
                        ELSE QInt(0),
              queries |-> <<Tier2Query>>]

\* GROUP BY t.bike_id over the departing trips that pass the filter
PerBikeRows(numeric_station_id, time_pattern) ==
    LET T == {t \in trips : /\ t.start_station_id = numeric_station_id
                            /\ time_filter(t, time_pattern)}
    IN  {[bike_id |-> b,
          trip_count |-> Cardinality({t \in T : t.bike_id = b}),
          avg_duration |-> AvgDuration({t \in T : t.bike_id = b}),
          unique_destinations |->
              Cardinality({t.end_station_id : t \in {x \in T : x.bike_id = b}})] :
            b \in {t.bike_id : t \in T}}

Position(order, b) == CHOOSE i \in 1..Len(order) : order[i] = b

\* ORDER BY trip_count DESC; SQL leaves the order of equal counts open, order
\* (a sequence of all bikes) is the order the store happens to use
RECURSIVE OrderByTripCount(_, _)
OrderByTripCount(rows, order) ==
    IF rows = {} THEN <<>>
    ELSE LET first == CHOOSE r \in rows : \A r2 \in rows :
                          \/ r.trip_count > r2.trip_count
                          \/ /\ r.trip_count = r2.trip_count
                             /\ Position(order, r.bike_id) <= Position(order, r2.bike_id)
         IN  <<first>> \o OrderByTripCount(rows \ {first}, order)

\* variant: the cut keeps one row more than asked for
Limit_one_more(seq, n) == SubSeq(seq, 1, IF Len(seq) < n + 1 THEN Len(seq) ELSE n + 1)

\* LIMIT n of the query, and the slice [:n]
Limit(seq, n) == SubSeq(seq, 1, IF Len(seq) < n THEN Len(seq) ELSE n)

\* LIMIT 50 of the per-bike query
AnalyzedLimit == 50

\* patterns[:10]
SampleLimit == 10

BikeOrders ==
    {o \in [1..Cardinality(Bikes) -> Bikes] : \A b \in Bikes : \E i \in DOMAIN o : o[i] = b}

\* variant: the shape for no data carries the default return rate
ZeroPatterns_default_rate ==
    [total_bikes_analyzed |-> 0, avg_trips_per_bike |-> QInt(0),
     bike_return_rate |-> Q(1, 10), patterns |-> <<>>]

\* the dictionary returned when there is no mapping row or no per-bike row
ZeroPatterns ==
    [total_bikes_analyzed |-> 0, avg_trips_per_bike |-> QInt(0),
     bike_return_rate |-> QInt(0), patterns |-> <<>>]

\* variant: the mapping lookup is executed again before the per-bike query
_get_bike_movement_patterns_optimized_relookup(station_id, time_pattern, order) ==
    IF QueryRaises(MappingLookup, time_pattern)
    THEN [value |-> EmptyDict, queries |-> <<MappingLookup>>, analyzed |-> <<>>]
    ELSE LET mapping_rows == {m \in station_mapping : m.uuid_station_id = station_id}
         IN  IF mapping_rows = {}
             THEN [value |-> ZeroPatterns, queries |-> <<MappingLookup>>,
                   analyzed |-> <<>>]
             ELSE IF QueryRaises(PerBikeQuery, time_pattern)
             THEN [value |-> EmptyDict,
                   queries |-> <<MappingLookup, MappingLookup, PerBikeQuery>>,
                   analyzed |-> <<>>]
             ELSE
             LET numeric_station_id ==
                     (CHOOSE m \in mapping_rows : TRUE).numeric_station_id
                 patterns == Limit(OrderByTripCount(
                                 PerBikeRows(numeric_station_id, time_pattern), order),
                                 AnalyzedLimit)
             IN  IF patterns # <<>>
                 THEN LET rr == _calculate_bike_return_rate_simplified(
                                    numeric_station_id, time_pattern)
                      IN  [value |->
                              [total_bikes_analyzed |-> Len(patterns),
                               avg_trips_per_bike |->
                                   Q(SumOver(DOMAIN patterns,
                                             [i \in DOMAIN patterns |-> patterns[i].trip_count]),
                                     Len(patterns)),
                               bike_return_rate |-> rr.value,
                               patterns |-> Limit(patterns, SampleLimit)],
                           queries |-> <<MappingLookup, MappingLookup, PerBikeQuery>>
                                       \o rr.queries,
                           analyzed |-> patterns]
                 ELSE [value |-> ZeroPatterns,
                       queries |-> <<MappingLookup, MappingLookup, PerBikeQuery>>,
                       analyzed |-> <<>>]

\* returns the dictionary, the queries issued and the rows of the per-bike
\* query (the local list patterns before it is cut to the sample)
_get_bike_movement_patterns_optimized(station_id, time_pattern, order) ==
    IF QueryRaises(MappingLookup, time_pattern)
    THEN [value |-> EmptyDict, queries |-> <<MappingLookup>>, analyzed |-> <<>>]
    ELSE LET mapping_rows == {m \in station_mapping : m.uuid_station_id = station_id}
         IN  IF mapping_rows = {}
             THEN [value |-> ZeroPatterns, queries |-> <<MappingLookup>>,
                   analyzed |-> <<>>]
             ELSE IF QueryRaises(PerBikeQuery, time_pattern)
             THEN [value |-> EmptyDict, queries |-> <<MappingLookup, PerBikeQuery>>,
                   analyzed |-> <<>>]
             ELSE
             LET numeric_station_id ==
                     (CHOOSE m \in mapping_rows : TRUE).numeric_station_id
                 patterns == Limit(OrderByTripCount(
                                 PerBikeRows(numeric_station_id, time_pattern), order),
                                 AnalyzedLimit)
             IN  IF patterns # <<>>
                 THEN LET rr == _calculate_bike_return_rate_simplified(
                                    numeric_station_id, time_pattern)
                      IN  [value |->
                              [total_bikes_analyzed |-> Len(patterns),
                               avg_trips_per_bike |->
                                   Q(SumOver(DOMAIN patterns,
                                             [i \in DOMAIN patterns |-> patterns[i].trip_count]),
                                     Len(patterns)),
                               bike_return_rate |-> rr.value,
                               patterns |-> Limit(patterns, SampleLimit)],
                           queries |-> <<MappingLookup, PerBikeQuery>> \o rr.queries,
                           analyzed |-> patterns]
                 ELSE [value |-> ZeroPatterns, queries |-> <<MappingLookup, PerBikeQuery>>,
                       analyzed |-> <<>>]

\* variant: a dictionary without a rate is read as the default rate 0.1
GetReturnRate_default_tenth(bike_patterns) ==
    IF "bike_return_rate" \in DOMAIN bike_patterns
    THEN bike_patterns.bike_return_rate
    ELSE Q(1, 10)

\* dict.get('bike_return_rate', 0.0)
GetReturnRate(bike_patterns) ==
    IF "bike_return_rate" \in DOMAIN bike_patterns
    THEN bike_patterns.bike_return_rate
    ELSE QInt(0)

\* variant: the upper bound of the final clamp is left out
Clamp01_without_upper(x) == QMax(QInt(0), x)

Clamp01(x) == QMax(QInt(0), QMin(QInt(1), x))

\* variant: the multiplier falls as the rider rides more often
frequency_multiplier_inverse(riding_frequency) == QMin(QInt(2), Q(5, riding_frequency))

frequency_multiplier(riding_frequency) == QMin(QInt(2), Q(riding_frequency, 5))

\* variant: weekday riders get no boost
time_multiplier_flat_weekday(time_pattern) ==
    IF time_pattern = "weekend" THEN Q(8, 10) ELSE QInt(1)

time_multiplier(time_pattern) ==
    IF time_pattern = "weekday" THEN Q(12, 10)
    ELSE IF time_pattern = "weekend" THEN Q(8, 10)
    ELSE QInt(1)

\* variant: the frequency multiplier stops growing at five rides per week
_calculate_encounter_probability_capped_at_five(home_station, bike_patterns, riding_frequency, time_pattern) ==
    LET total_trips == home_station.total_trips
        unique_bikes == home_station.unique_bikes
    IN  IF total_trips = 0 \/ unique_bikes = 0 THEN QInt(0)
        ELSE LET bike_turnover_rate == Q(total_trips, unique_bikes)
                 base_probability == QMin(Q(3, 10), QMul(bike_turnover_rate, Q(1, 1000)))
                 return_rate == GetReturnRate(bike_patterns)
                 return_rate_multiplier == QAdd(QInt(1), QMul(return_rate, QInt(2)))
                 probability ==
                     QMul(QMul(QMul(base_probability,
                                    QMin(QInt(1), Q(riding_frequency, 5))),
                               return_rate_multiplier),
                          time_multiplier(time_pattern))
             IN  Clamp01(probability)

_calculate_encounter_probability(home_station, bike_patterns, riding_frequency, time_pattern) ==
    LET total_trips == home_station.total_trips
        unique_bikes == home_station.unique_bikes
    IN  IF total_trips = 0 \/ unique_bikes = 0 THEN QInt(0)
        ELSE LET bike_turnover_rate == Q(total_trips, unique_bikes)
                 base_probability == QMin(Q(3, 10), QMul(bike_turnover_rate, Q(1, 1000)))
                 return_rate == GetReturnRate(bike_patterns)
                 return_rate_multiplier == QAdd(QInt(1), QMul(return_rate, QInt(2)))
                 probability ==
                     QMul(QMul(QMul(base_probability,
                                    frequency_multiplier(riding_frequency)),
                               return_rate_multiplier),
                          time_multiplier(time_pattern))
             IN  Clamp01(probability)

\* variant: the two sample-size thresholds are inclusive
margin_inclusive(total_trips) ==
    IF total_trips <= 10 THEN Q(1, 10)
    ELSE IF total_trips <= 100 THEN Q(5, 100)
    ELSE Q(2, 100)

\* the margin _calculate_confidence_interval picks for the sample size
margin(total_trips) ==
    IF total_trips < 10 THEN Q(1, 10)
    ELSE IF total_trips < 100 THEN Q(5, 100)
    ELSE Q(2, 100)

\* variant: the bounds are not clamped to [0, 1]
ConfidenceBounds_unclamped(probability, home_station) ==
    [lower |-> QSub(probability, margin(home_station.total_trips)),
     upper |-> QAdd(probability, margin(home_station.total_trips))]

\* lower and upper of _calculate_confidence_interval before formatting
ConfidenceBounds(probability, home_station) ==
    [lower |-> QMax(QInt(0), QSub(probability, margin(home_station.total_trips))),
     upper |-> QMin(QInt(1), QAdd(probability, margin(home_station.total_trips)))]

_calculate_confidence_interval(probability, home_station) ==
    LET b == ConfidenceBounds(probability, home_station)
    IN  <<FormatPercent(b.lower), "to", FormatPercent(b.upper)>>

\* variant: the limits of the bands are inclusive
_generate_explanation_inclusive(probability, home_station, bike_patterns, riding_frequency, time_pattern) ==
    [station_name |-> home_station.name,
     total_trips |-> home_station.total_trips,
     unique_bikes |-> home_station.unique_bikes,
     band |-> IF QLe(probability, Q(5, 100)) THEN "quite low"
              ELSE IF QLe(probability, Q(15, 100)) THEN "moderate"
              ELSE IF QLe(probability, Q(30, 100)) THEN "relatively high"
              ELSE "quite high",
     riding_frequency |-> riding_frequency,
     time_pattern |-> time_pattern,
     return_rate |-> FormatPercent(GetReturnRate(bike_patterns)),
     probability |-> FormatPercent(probability)]

\* the parts the explanation text is put together from
_generate_explanation(probability, home_station, bike_patterns, riding_frequency, time_pattern) ==
    [station_name |-> home_station.name,
     total_trips |-> home_station.total_trips,
     unique_bikes |-> home_station.unique_bikes,
     band |-> IF QLt(probability, Q(5, 100)) THEN "quite low"
              ELSE IF QLt(probability, Q(15, 100)) THEN "moderate"
              ELSE IF QLt(probability, Q(30, 100)) THEN "relatively high"
              ELSE "quite high",
     riding_frequency |-> riding_frequency,
     time_pattern |-> time_pattern,
     return_rate |-> FormatPercent(GetReturnRate(bike_patterns)),
     probability |-> FormatPercent(probability)]

(***************************************************************************)
(* calculate_bike_movement_probability: the outcome of one call, with the  *)
(* request, the values computed on the way and the queries issued.         *)
(***************************************************************************)
FrequencyMessage == <<"Riding frequency must be a positive number">>

PatternMessage == <<"Time pattern must be", " one of: weekday, weekend, both">>

NotFoundMessage(home_station_id) ==
    <<"Station '", home_station_id, "' not found in database">>

StoreMessage == <<"database error">>

NoError == [type |-> "none", message |-> <<>>]

NoCall ==
    [kind |-> "none", home_station_id |-> <<>>, riding_frequency |-> 0,
     time_pattern |-> "", error |-> NoError, result |-> EmptyDict,
     home_station |-> EmptyDict, movement_ran |-> FALSE,
     bike_patterns |-> EmptyDict, queries |-> <<>>, analyzed |-> <<>>,
     numeric_station_id |-> ""]

Raised(home_station_id, riding_frequency, time_pattern, type, message, queries) ==
    [NoCall EXCEPT !.kind = "error",
                   !.home_station_id = home_station_id,
                   !.riding_frequency = riding_frequency,
                   !.time_pattern = time_pattern,
                   !.error = [type |-> type, message |-> message],
                   !.queries = queries]

Returned(home_station_id, riding_frequency, time_pattern, home_station, movement, queries) ==
    LET bike_patterns == movement.value
        probability == _calculate_encounter_probability(
                           home_station, bike_patterns, riding_frequency, time_pattern)
    IN  [NoCall EXCEPT
            !.kind = "result",
            !.home_station_id = home_station_id,
            !.riding_frequency = riding_frequency,
            !.time_pattern = time_pattern,
            !.result =
                [probability |-> probability,
                 confidence_interval |->
                     _calculate_confidence_interval(probability, home_station),
                 explanation |->
                     _generate_explanation(probability, home_station, bike_patterns,
                                           riding_frequency, time_pattern),
                 station_info |->
                     [name |-> home_station.name,
                      total_trips |-> home_station.total_trips,
                      unique_bikes |-> home_station.unique_bikes,
                      avg_trip_duration |-> home_station.avg_trip_duration]],
            !.home_station = home_station,
            !.movement_ran = TRUE,
            !.bike_patterns = bike_patterns,
            !.queries = queries \o movement.queries]

\* variant: a station without statistics is given empty statistics
AfterResolution_default_station(home_station_id, riding_frequency, time_pattern, uuid_station_id, queries, order) ==
    LET loaded == load_station_statistics
        stats == loaded.value
        home_station ==
            IF uuid_station_id \in DOMAIN stats THEN stats[uuid_station_id]
            ELSE [station_id |-> uuid_station_id, name |-> home_station_id,
                  total_trips |-> 0, unique_bikes |-> 0, avg_trip_duration |-> QInt(0)]
    IN  [cache |-> loaded.cache,
         outcome |-> Returned(home_station_id, riding_frequency, time_pattern,
                              home_station,
                              _get_bike_movement_patterns_optimized(
                                  uuid_station_id, time_pattern, order),
                              queries \o loaded.queries)]

\* the part of the call after the station identifier has been resolved
AfterResolution(home_station_id, riding_frequency, time_pattern, uuid_station_id, queries, order) ==
    LET loaded == load_station_statistics
        stats == loaded.value
    IN  [cache |-> loaded.cache,
         outcome |->
            IF uuid_station_id \notin DOMAIN stats
            THEN Raised(home_station_id, riding_frequency, time_pattern, "ValueError",
                        NotFoundMessage(home_station_id), queries \o loaded.queries)
            ELSE Returned(home_station_id, riding_frequency, time_pattern,
                          stats[uuid_station_id],
                          _get_bike_movement_patterns_optimized(
                              uuid_station_id, time_pattern, order),
                          queries \o loaded.queries)]

\* what follows the two validations
Resolve(home_station_id, riding_frequency, time_pattern, order) ==
    IF is_uuid_format(home_station_id)
    THEN AfterResolution(home_station_id, riding_frequency, time_pattern,
                         home_station_id, <<>>, order)
    ELSE LET found == get_uuid_by_station_name(home_station_id)
         IN  IF found.status = "store_error"
             THEN [cache |-> station_stats,
                   outcome |-> Raised(home_station_id, riding_frequency, time_pattern,
                                      "StoreError", StoreMessage, <<NameLookup>>)]
             ELSE IF found.status = "not_found"
             THEN [cache |-> station_stats,
                   outcome |-> Raised(home_station_id, riding_frequency, time_pattern,
                                      "ValueError", NotFoundMessage(home_station_id),
                                      <<NameLookup>>)]
             ELSE AfterResolution(home_station_id, riding_frequency, time_pattern,
                                  found.uuid, <<NameLookup>>, order)

\* variant: the time pattern is validated before the riding frequency
calculate_bike_movement_probability_pattern_first(home_station_id, riding_frequency, time_pattern, order) ==
    IF time_pattern \notin ValidTimePatterns
    THEN [cache |-> station_stats,
          outcome |-> Raised(home_station_id, riding_frequency, time_pattern,
                             "ValueError", PatternMessage, <<>>)]
    ELSE IF riding_frequency <= 0
    THEN [cache |-> station_stats,
          outcome |-> Raised(home_station_id, riding_frequency, time_pattern,
                             "ValueError", FrequencyMessage, <<>>)]
    ELSE Resolve(home_station_id, riding_frequency, time_pattern, order)

calculate_bike_movement_probability(home_station_id, riding_frequency, time_pattern, order) ==
    IF riding_frequency <= 0
    THEN [cache |-> station_stats,
          outcome |-> Raised(home_station_id, riding_frequency, time_pattern,
                             "ValueError", FrequencyMessage, <<>>)]
    ELSE IF time_pattern \notin ValidTimePatterns
    THEN [cache |-> station_stats,
          outcome |-> Raised(home_station_id, riding_frequency, time_pattern,
                             "ValueError", PatternMessage, <<>>)]
    ELSE Resolve(home_station_id, riding_frequency, time_pattern, order)

(***************************************************************************)
(* calculate_probability and the endpoint POST /api/probability (main.py). *)
(***************************************************************************)
\* a calculator built for the one request; its statistics die with it
calculate_probability(home_station_id, riding_frequency, time_pattern, order) ==
    calculate_bike_movement_probability(
        home_station_id, riding_frequency, time_pattern, order).outcome

InternalErrorDetail == <<"Internal server error during probability calculation">>

NoResponse == [status |-> 0, detail |-> <<>>, body |-> EmptyDict]

\* variant: one handler for every exception
HttpResponse_single_handler(outcome) ==
    IF outcome.kind = "result"
    THEN [status |-> 200, detail |-> <<>>, body |-> outcome.result]
    ELSE [status |-> 500, detail |-> InternalErrorDetail, body |-> EmptyDict]

\* the response of calculate_probability_endpoint for the engine's outcome
HttpResponse(outcome) ==
    IF outcome.kind = "result"
    THEN [status |-> 200, detail |-> <<>>, body |-> outcome.result]
    ELSE IF outcome.error.type = "ValueError"
    THEN [status |-> 400, detail |-> outcome.error.message, body |-> EmptyDict]
    ELSE [status |-> 500, detail |-> InternalErrorDetail, body |-> EmptyDict]

(***************************************************************************)
(* The system: the store is loaded by the ingestion scripts, its queries   *)
(* may start or stop failing, and a client calls one calculator instance.  *)
(***************************************************************************)
IdleProbe ==
    [op |-> "idle", applied |-> FALSE, riding_frequency |-> 0, time_pattern |-> "",
     total_trips |-> 0, unique_bikes |-> 0, bike_patterns |-> EmptyDict,
     probability |-> QInt(0), lower |-> QInt(0), upper |-> QInt(0),
     station_id |-> <<>>, is_uuid |-> FALSE]

Init ==
    /\ stations = {}
    /\ station_mapping = {}
    /\ trips = {}
    /\ failing = {}
    /\ station_stats = EmptyDict
    /\ prev = NoCall
    /\ last = NoCall
    /\ probe = IdleProbe
    /\ response = NoResponse

\* the client holds no response of an earlier call
Idle == last.kind = "none"

InsertStation(s) ==
    /\ Idle
    /\ \A x \in stations : x.station_id # s.station_id
    /\ stations' = stations \cup {s}
    /\ UNCHANGED <<response, station_mapping, trips, failing, station_stats, prev, last, probe>>

InsertMapping(m) ==
    /\ Idle
    /\ \A x \in station_mapping :
          /\ x.uuid_station_id # m.uuid_station_id
          /\ x.station_name # m.station_name
    /\ station_mapping' = station_mapping \cup {m}
    /\ UNCHANGED <<response, stations, trips, failing, station_stats, prev, last, probe>>

InsertTrip(t) ==
    /\ Idle
    /\ t \notin trips
    /\ Cardinality(trips) < MaxTrips
    /\ trips' = trips \cup {t}
    /\ UNCHANGED <<response, stations, station_mapping, failing, station_stats, prev, last, probe>>

SetFailing(qs) ==
    /\ Idle
    /\ qs # failing
    /\ failing' = qs
    /\ UNCHANGED <<response, stations, station_mapping, trips, station_stats, prev, last, probe>>

\* one call on the calculator instance; the response of the call before it,
\* if the client still holds one, is kept in prev
Call(home_station_id, riding_frequency, time_pattern) ==
    \E done \in {calculate_bike_movement_probability(
                      home_station_id, riding_frequency, time_pattern, order) :
                      order \in BikeOrders} :
        /\ last' = done.outcome
        /\ prev' = last
        /\ station_stats' = done.cache
        /\ UNCHANGED <<response, stations, station_mapping, trips, failing, probe>>

\* variant: a request for a station without a mapping row registers the row
calculate_probability_endpoint_registering(home_station_id, riding_frequency, time_pattern) ==
    \E outcome \in {calculate_probability(
                        home_station_id, riding_frequency, time_pattern, order) :
                        order \in BikeOrders} :
        /\ last' = outcome
        /\ response' = HttpResponse(outcome)
        /\ station_mapping' = station_mapping \cup
               {r \in MappingRows :
                   /\ home_station_id \in {r.uuid_station_id, r.station_name}
                   /\ \A x \in station_mapping :
                         x.uuid_station_id # r.uuid_station_id}
        /\ UNCHANGED <<stations, trips, failing, station_stats, prev, probe>>

\* one request to POST /api/probability; last keeps what the engine did
calculate_probability_endpoint(home_station_id, riding_frequency, time_pattern) ==
    \E outcome \in {calculate_probability(
                        home_station_id, riding_frequency, time_pattern, order) :
                        order \in BikeOrders} :
        /\ last' = outcome
        /\ response' = HttpResponse(outcome)
        /\ UNCHANGED <<stations, station_mapping, trips, failing, station_stats,
                       prev, probe>>

\* the client drops the responses it holds
Return ==
    /\ ~Idle
    /\ last' = NoCall
    /\ prev' = NoCall
    /\ response' = NoResponse
    /\ UNCHANGED <<stations, station_mapping, trips, failing, station_stats, probe>>

\* the second request of a client that compares two responses: the same
\* request again, the next riding frequency, or the other identifier
FollowUps ==
    {[id |-> last.home_station_id, f |-> last.riding_frequency, p |-> last.time_pattern]}
    \cup {[id |-> last.home_station_id, f |-> last.riding_frequency + 1,
           p |-> last.time_pattern] : x \in {y \in {1} : last.riding_frequency < MaxFreq}}
    \cup {[id |-> id, f |-> last.riding_frequency, p |-> last.time_pattern] :
             id \in RequestIds}

FirstCall ==
    \E id \in RequestIds, f \in Frequencies, p \in TimePatterns :
        Idle /\ Call(id, f, p)

PostProbability ==
    \E id \in RequestIds, f \in Frequencies, p \in TimePatterns :
        Idle /\ calculate_probability_endpoint(id, f, p)

SecondCall ==
    \E r \in FollowUps :
        /\ ~Idle
        /\ prev.kind = "none"
        /\ response = NoResponse
        /\ Call(r.id, r.f, r.p)

Next ==
    \/ \E s \in StationRows : InsertStation(s)
    \/ \E m \in MappingRows : InsertMapping(m)
    \/ \E t \in TripRows : InsertTrip(t)
    \/ \E qs \in FaultScenarios : SetFailing(qs)
    \/ FirstCall
    \/ SecondCall
    \/ PostProbability
    \/ Return

Spec == Init /\ [][Next]_vars

(***************************************************************************)
(* The formulas on their own: the station aggregate and the return rate    *)
(* that the store's queries would answer are drawn from bounded sets, so   *)
(* that stations with thousands of trips are covered, and the rest of the  *)
(* call runs on them.                                                      *)
(***************************************************************************)
AggregateTrips == {0, 1, 9, 10, 99, 100, 1000, 1001, 3000, 10000, 10001}

AggregateBikes == {0, 1, 7, 10}

\* rates the tiers can answer: k/n, min(0.5, bikes/trips), 0.1 and 0
AggregateRates == {Q(0, 1), Q(1, 10), Q(1, 8), Q(1, 4), Q(1, 3), Q(1, 2), Q(1, 1)}

\* the movement result: a dictionary with a return rate, or the empty one
AggregatePatterns ==
    {[ZeroPatterns EXCEPT !.bike_return_rate = r] : r \in AggregateRates}
    \cup {EmptyDict}

ProbeProbabilities ==
    {Q(k, 100) : k \in {0, 1, 2, 4, 5, 9, 10, 11, 30, 36, 50, 90, 95, 96, 98, 99, 100}}

CallInputs ==
    {[IdleProbe EXCEPT !.op = "call", !.riding_frequency = f, !.time_pattern = p,
                       !.total_trips = t, !.unique_bikes = u, !.bike_patterns = bp] :
        f \in 1..MaxProbeFreq, p \in {"weekday", "weekend", "both"},
        t \in AggregateTrips,
        u \in AggregateBikes,
        bp \in AggregatePatterns}

ConfidenceInputs ==
    {[IdleProbe EXCEPT !.op = "confidence", !.probability = pr, !.total_trips = t] :
        pr \in ProbeProbabilities, t \in AggregateTrips}

IdentifierInputs ==
    {[IdleProbe EXCEPT !.op = "identifier", !.station_id = s] : s \in IdentifierStrings}

\* the aggregate of a station has no more bikes than trips, and none of
\* either when it has none of the other
InitFormulas ==
    /\ stations = {}
    /\ station_mapping = {}
    /\ trips = {}
    /\ failing = {}
    /\ station_stats = EmptyDict
    /\ prev = NoCall
    /\ last = NoCall
    /\ response = NoResponse
    /\ probe \in ConfidenceInputs \cup IdentifierInputs \cup
                 {i \in CallInputs :
                    /\ i.unique_bikes <= i.total_trips
                    /\ (i.unique_bikes = 0) <=> (i.total_trips = 0)}

CallOnAggregate ==
    /\ probe.op = "call"
    /\ ~probe.applied
    /\ last' = Returned(TestUuid1, probe.riding_frequency, probe.time_pattern,
                        [station_id |-> TestUuid1, name |-> StationName1,
                         total_trips |-> probe.total_trips,
                         unique_bikes |-> probe.unique_bikes,
                         avg_trip_duration |-> QInt(0)],
                        [value |-> probe.bike_patterns, queries |-> <<MappingLookup>>],
                        <<StatsQuery>>)
    /\ probe' = [probe EXCEPT !.applied = TRUE]
    /\ UNCHANGED <<response, stations, station_mapping, trips, failing, station_stats, prev>>

ProbeConfidence ==
    /\ probe.op = "confidence"
    /\ ~probe.applied
    /\ LET b == ConfidenceBounds(probe.probability, [total_trips |-> probe.total_trips])
       IN  probe' = [probe EXCEPT !.applied = TRUE, !.lower = b.lower, !.upper = b.upper]
    /\ UNCHANGED <<response, stations, station_mapping, trips, failing, station_stats, prev, last>>

\* is_uuid_format on a string, and one call with that string as identifier
CallOnIdentifier ==
    /\ probe.op = "identifier"
    /\ ~probe.applied
    /\ \E done \in {calculate_bike_movement_probability(
                         probe.station_id, 1, "both", order) : order \in BikeOrders} :
          /\ last' = done.outcome
          /\ station_stats' = done.cache
    /\ probe' = [probe EXCEPT !.applied = TRUE,
                              !.is_uuid = is_uuid_format(probe.station_id)]
    /\ UNCHANGED <<response, stations, station_mapping, trips, failing, prev>>

\* the same request again with the next riding frequency, as the loop of
\* test_probability_different_frequencies asks on one calculator
NextFrequencyOnAggregate ==
    /\ probe.op = "call"
    /\ probe.applied
    /\ prev.kind = "none"
    /\ last.riding_frequency < MaxProbeFreq
    /\ prev' = last
    /\ last' = Returned(TestUuid1, last.riding_frequency + 1, probe.time_pattern,
                        last.home_station,
                        [value |-> probe.bike_patterns, queries |-> <<MappingLookup>>],
                        <<StatsQuery>>)
    /\ UNCHANGED <<response, stations, station_mapping, trips, failing, station_stats, probe>>

NextFormulas ==
    CallOnAggregate \/ NextFrequencyOnAggregate \/ ProbeConfidence \/ CallOnIdentifier

SpecFormulas == InitFormulas /\ [][NextFormulas]_vars

(***************************************************************************)
(* The movement computation on its own, over a store that holds the trips  *)
(* of a whole fleet, so that the limits of the per-bike query and of the   *)
(* returned sample are exceeded.                                           *)
(***************************************************************************)
MaxFleet == 52

FleetBike(k) == IF k < 10 THEN "bike_00" \o ToString(k) ELSE "bike_0" \o ToString(k)

\* n bikes at station 1: each leaves on a Monday (half day 2), every fourth
\* one is ridden back on the Tuesday (4), every third one leaves again on the
\* Wednesday (6) and every fifth one on the Saturday (12)
FleetTrips(n) ==
    {Trip(FleetBike(k), "test_station_1", "test_station_2", 2) : k \in 1..n}
    \cup {Trip(FleetBike(k), "test_station_2", "test_station_1", 4) :
             k \in {j \in 1..n : j % 4 = 0}}
    \cup {Trip(FleetBike(k), "test_station_1", "test_station_2", 6) :
             k \in {j \in 1..n : j % 3 = 0}}
    \cup {Trip(FleetBike(k), "test_station_1", "test_station_2", 12) :
             k \in {j \in 1..n : j % 5 = 0}}

FleetSizes == {0, 1, 10, 11, 50, 51, MaxFleet}

\* the orders the store may use among bikes with equal trip counts
FleetOrders ==
    {[i \in 1..MaxFleet |-> FleetBike(i)],
     [i \in 1..MaxFleet |-> FleetBike(MaxFleet + 1 - i)]}

InitMovement ==
    /\ stations = {}
    /\ station_mapping = {}
    /\ trips \in {FleetTrips(n) : n \in FleetSizes}
    /\ failing = {}
    /\ station_stats = EmptyDict
    /\ prev = NoCall
    /\ last = NoCall
    /\ probe = IdleProbe
    /\ response = NoResponse

\* _get_bike_movement_patterns_optimized invoked by itself, with any text as
\* time pattern; last keeps the dictionary, the queries and the rows
InvokeMovement ==
    \E station_id \in PublicIds, time_pattern \in TimePatterns, order \in FleetOrders :
        /\ Idle
        /\ LET movement == _get_bike_movement_patterns_optimized(
                                station_id, time_pattern, order)
           IN  last' = [NoCall EXCEPT !.kind = "movement",
                                      !.home_station_id = station_id,
                                      !.time_pattern = time_pattern,
                                      !.movement_ran = TRUE,
                                      !.bike_patterns = movement.value,
                                      !.queries = movement.queries,
                                      !.analyzed = movement.analyzed]
        /\ UNCHANGED <<response, stations, station_mapping, trips, failing,
                       station_stats, prev, probe>>

\* _calculate_bike_return_rate_simplified invoked by itself for an internal
\* station id; last keeps the rate under bike_return_rate
InvokeReturnRate ==
    \E numeric_station_id \in NumericIds, time_pattern \in TimePatterns :
        /\ Idle
        /\ LET rate == _calculate_bike_return_rate_simplified(
                            numeric_station_id, time_pattern)
           IN  last' = [NoCall EXCEPT !.kind = "return_rate",
                                      !.numeric_station_id = numeric_station_id,
                                      !.time_pattern = time_pattern,
                                      !.bike_patterns = [bike_return_rate |-> rate.value],
                                      !.queries = rate.queries]
        /\ UNCHANGED <<response, stations, station_mapping, trips, failing,
                       station_stats, prev, probe>>

NextMovement ==
    \/ \E m \in MappingRows : InsertMapping(m)
    \/ \E qs \in FaultScenarios : SetFailing(qs)
    \/ InvokeMovement
    \/ InvokeReturnRate
    \/ Return

SpecMovement == InitMovement /\ [][NextMovement]_vars

(***************************************************************************)
(* Properties                                                              *)
(***************************************************************************)
\* C1: every result of the computation carries a probability p with
\* 0 <= p <= 1, whatever return rate the movement computation handed over
\* (a tier's rate, the default 0.1, or none at all).
ProbabilityInUnitInterval ==
    last.kind = "result" =>
        /\ QLe(QInt(0), last.result.probability)
        /\ QLe(last.result.probability, QInt(1))

\* the product of the four factors exceeds 1 and the result carries exactly 1
ProbabilityClampedAtOne ==
    /\ last.kind = "result"
    /\ last.riding_frequency >= 10
    /\ last.time_pattern = "weekday"
    /\ GetReturnRate(last.bike_patterns) = QInt(1)
    /\ last.home_station.total_trips = 10000
    /\ last.home_station.unique_bikes = 10
    /\ last.result.probability = QInt(1)

\* C2: a call with riding_frequency <= 0 raises the frequency validation
\* error for every station identifier and every time pattern, and has issued
\* no query when it raises.
FrequencyValidatedFirst ==
    (last.kind # "none" /\ last.riding_frequency <= 0) =>
        /\ last.kind = "error"
        /\ last.error = [type |-> "ValueError", message |-> FrequencyMessage]
        /\ last.queries = <<>>

\* a non-positive frequency with an invalid pattern and a station the store
\* does not hold
FrequencyRejectedWithInvalidPattern ==
    /\ last.kind = "error"
    /\ last.riding_frequency <= 0
    /\ last.time_pattern = "invalid"
    /\ stations = {}
    /\ station_mapping = {}
    /\ last.error.message = FrequencyMessage

\* C3: a call with riding_frequency > 0 and a time pattern other than
\* weekday, weekend and both raises a validation error whose message starts
\* with "Time pattern must be", for every station identifier; it returns no
\* result.
InvalidPatternRaises ==
    (/\ last.kind # "none"
     /\ last.riding_frequency > 0
     /\ last.time_pattern \notin {"weekday", "weekend", "both"}) =>
        /\ last.kind = "error"
        /\ last.error.type = "ValueError"
        /\ last.error.message[1] = "Time pattern must be"

\* an invalid pattern is rejected for a station the store knows
InvalidPatternRejectedForKnownStation ==
    /\ last.kind = "error"
    /\ last.riding_frequency > 0
    /\ last.time_pattern = "invalid"
    /\ last.home_station_id = TestUuid1
    /\ \E s \in stations : s.station_id = TestUuid1
    /\ last.error.message = PatternMessage

\* C4: with a valid frequency and pattern, an unknown station identifier (a
\* name without a station_mapping row, or a UUID-shaped identifier without a
\* stations row) never yields a result; the call raises, and where the store
\* answers the name lookup what it raises is the not-found error.
UnknownStationRaises ==
    (/\ last.kind # "none"
     /\ last.riding_frequency > 0
     /\ last.time_pattern \in {"weekday", "weekend", "both"}
     /\ IF is_uuid_format(last.home_station_id)
        THEN \A s \in stations : s.station_id # last.home_station_id
        ELSE \A m \in station_mapping : m.station_name # last.home_station_id) =>
        /\ last.kind = "error"
        /\ (is_uuid_format(last.home_station_id) \/ NameLookup \notin failing) =>
              /\ last.error.type = "ValueError"
              /\ last.error.message = <<"Station '", last.home_station_id,
                                        "' not found in database">>

\* an unknown name and an unknown UUID are each rejected while the store
\* holds other stations
UnknownNameRejected ==
    /\ last.kind = "error"
    /\ last.home_station_id = StationName1
    /\ last.riding_frequency > 0
    /\ last.error.message = NotFoundMessage(StationName1)
    /\ stations # {}
    /\ station_mapping = {}
    /\ failing = {}

NameAndUuidAgree ==
    (/\ prev.kind # "none"
     /\ last.riding_frequency = prev.riding_frequency
     /\ last.time_pattern = prev.time_pattern
     /\ NameLookup \notin failing
     /\ \E m \in station_mapping :
           /\ is_uuid_format(m.uuid_station_id)
           /\ ~is_uuid_format(m.station_name)
           /\ \/ prev.home_station_id = m.station_name
                 /\ last.home_station_id = m.uuid_station_id
              \/ prev.home_station_id = m.uuid_station_id
                 /\ last.home_station_id = m.station_name) =>
        /\ last.kind = prev.kind
        /\ last.kind = "result" =>
              /\ last.result.probability = prev.result.probability
              /\ last.result.confidence_interval = prev.result.confidence_interval
              /\ last.result.explanation = prev.result.explanation
              /\ last.result.station_info = prev.result.station_info

\* a station with trips answered by name and then by its UUID
NameThenUuidAnswered ==
    /\ prev.kind = "result"
    /\ last.kind = "result"
    /\ prev.home_station_id = StationName1
    /\ last.home_station_id = TestUuid1
    /\ last.result.station_info.total_trips > 0
    /\ QLt(QInt(0), last.result.probability)

\* C7: the probability of a result is 0 when the station has no trips or no
\* bikes, and otherwise min(0.3, (trips / bikes) / 1000) * min(2, f / 5) *
\* (1 + 2 * return rate) * (1.2 weekday, 0.8 weekend, 1.0 both) clamped to
\* [0, 1]; 10000 trips, 10 bikes, f = 5 and return rate 0 give 0.3 for both
\* and 0.36 for weekday.
MatchesReferenceFormula ==
    last.kind = "result" =>
        LET T == last.home_station.total_trips
            U == last.home_station.unique_bikes
            f == last.riding_frequency
            rr == IF "bike_return_rate" \in DOMAIN last.bike_patterns
                  THEN last.bike_patterns.bike_return_rate ELSE QInt(0)
            tm == CASE last.time_pattern = "weekday" -> Q(6, 5)
                    [] last.time_pattern = "weekend" -> Q(4, 5)
                    [] last.time_pattern = "both" -> QInt(1)
            product == QMul(QMul(QMul(QMin(Q(3, 10), Q(T, U * 1000)),
                                      QMin(QInt(2), Q(f, 5))),
                                 QAdd(QInt(1), QMul(QInt(2), rr))),
                            tm)
            expected == IF T = 0 \/ U = 0 THEN QInt(0)
                        ELSE IF QLt(product, QInt(0)) THEN QInt(0)
                        ELSE IF QLt(QInt(1), product) THEN QInt(1)
                        ELSE product
        IN  /\ last.result.probability = expected
            /\ (T = 10000 /\ U = 10 /\ f = 5 /\ rr = QInt(0)) =>
                  /\ last.time_pattern = "both" => last.result.probability = <<3, 10>>
                  /\ last.time_pattern = "weekday" => last.result.probability = <<9, 25>>

\* the weekday scenario: 10000 trips, 10 bikes, f = 5, return rate 0
WeekdayScenarioAnswered ==
    /\ last.kind = "result"
    /\ last.home_station.total_trips = 10000
    /\ last.home_station.unique_bikes = 10
    /\ last.riding_frequency = 5
    /\ last.time_pattern = "weekday"
    /\ GetReturnRate(last.bike_patterns) = QInt(0)
    /\ last.result.probability = <<9, 25>>

\* C8: a valid request for a known station without departing trips, made
\* while the store answers the statistics query (and the name lookup, when a
\* name is given), returns a result whose probability is exactly 0; and every
\* result for a station with total_trips = 0 has probability 0.
ZeroTripStationYieldsZero ==
    /\ (/\ last.kind # "none"
        /\ last.riding_frequency > 0
        /\ last.time_pattern \in {"weekday", "weekend", "both"}
        /\ StatsQuery \notin failing
        /\ \E s \in stations :
              /\ \/ last.home_station_id = s.station_id
                    /\ is_uuid_format(last.home_station_id)
                 \/ /\ ~is_uuid_format(last.home_station_id)
                    /\ NameLookup \notin failing
                    /\ \E m \in station_mapping :
                          /\ m.station_name = last.home_station_id
                          /\ m.uuid_station_id = s.station_id
              /\ \A t \in trips : \A m \in station_mapping :
                    m.uuid_station_id = s.station_id =>
                        t.start_station_id # m.numeric_station_id) =>
           /\ last.kind = "result"
           /\ last.result.probability = QInt(0)
           /\ last.result.station_info.total_trips = 0
    /\ (last.kind = "result" /\ last.home_station.total_trips = 0) =>
           last.result.probability = QInt(0)

\* a mapped station without departing trips, in a store that holds trips of
\* other stations, answered for weekday riders
ZeroTripStationAnswered ==
    /\ last.kind = "result"
    /\ last.home_station.total_trips = 0
    /\ last.time_pattern = "weekday"
    /\ last.riding_frequency > 1
    /\ trips # {}
    /\ \E m \in station_mapping : m.uuid_station_id = last.home_station.station_id
    /\ last.result.probability = QInt(0)

\* C9: with the station, the pattern and the store fixed, the call with
\* riding frequency f + 1 returns a probability no smaller than the call with
\* f, for f = 1, 2, 3, 4.
MonotoneInFrequency ==
    (/\ prev.kind = "result"
     /\ last.kind # "none"
     /\ last.home_station_id = prev.home_station_id
     /\ last.time_pattern = prev.time_pattern
     /\ prev.riding_frequency \in 1..4
     /\ last.riding_frequency = prev.riding_frequency + 1) =>
        /\ last.kind = "result"
        /\ QLe(prev.result.probability, last.result.probability)

\* the probability grows from f = 4 to f = 5
ProbabilityGrowsFromFourToFive ==
    /\ prev.kind = "result"
    /\ last.kind = "result"
    /\ last.home_station_id = prev.home_station_id
    /\ last.time_pattern = prev.time_pattern
    /\ prev.riding_frequency = 4
    /\ last.riding_frequency = 5
    /\ QLt(prev.result.probability, last.result.probability)

\* C10: for a probability p in [0, 1] and total_trips >= 0 the bounds of the
\* confidence interval, before they are formatted, satisfy
\* 0 <= lower <= p <= upper <= 1.
ConfidenceBoundsOrdered ==
    (probe.op = "confidence" /\ probe.applied) =>
        /\ QLe(QInt(0), probe.lower)
        /\ QLe(probe.lower, probe.probability)
        /\ QLe(probe.probability, probe.upper)
        /\ QLe(probe.upper, QInt(1))

\* both clamps act: p - margin < 0 for p = 0.05 and p + margin > 1 for p = 0.99
BoundsClamped ==
    /\ probe.op = "confidence"
    /\ probe.applied
    /\ probe.total_trips < 10
    /\ \/ probe.probability = Q(99, 100) /\ probe.upper = QInt(1)
       \/ probe.probability = Q(5, 100) /\ probe.lower = QInt(0)

\* C11: when the tier-2 return-rate query fails, the call still returns a
\* result whose movement patterns carry a bike_return_rate r with
\* 0 <= r <= 1, whether the tier-3 query then answers or fails as well.
ReturnRateSurvivesTierTwoFailure ==
    (/\ last.kind # "none"
     /\ \E i \in DOMAIN last.queries : last.queries[i] = Tier2Query
     /\ QueryRaises(Tier2Query, last.time_pattern)) =>
        /\ last.kind = "result"
        /\ "bike_return_rate" \in DOMAIN last.bike_patterns
        /\ QLe(QInt(0), last.bike_patterns.bike_return_rate)
        /\ QLe(last.bike_patterns.bike_return_rate, QInt(1))
        /\ last.queries[Len(last.queries)] = Tier3Query

\* tier 2 and tier 3 both fail and the call returns with the default rate
BothTiersFailedAndAnswered ==
    /\ last.kind = "result"
    /\ failing = {Tier2Query, Tier3Query}
    /\ last.time_pattern = "both"
    /\ Len(last.queries) >= 2
    /\ last.queries[Len(last.queries) - 1] = Tier2Query
    /\ last.queries[Len(last.queries)] = Tier3Query
    /\ last.bike_patterns.bike_return_rate = Q(1, 10)


\* C12: is_uuid_format is true exactly for the strings that are 36
\* characters long with hyphens at positions 9, 14, 19 and 24 and hexadecimal
\* digits elsewhere, or that start with test-uuid- and hold exactly two
\* hyphens; every other string goes through the name lookup.
UuidFormatIsHexLayoutOrShorthand ==
    (probe.op = "identifier" /\ probe.applied) =>
        LET s == probe.station_id
            hex == {"0", "1", "2", "3", "4", "5", "6", "7", "8", "9",
                    "a", "b", "c", "d", "e", "f", "A", "B", "C", "D", "E", "F"}
            canonical == /\ Len(s) = 36
                         /\ \A i \in 1..36 : IF i \in {9, 14, 19, 24}
                                             THEN s[i] = "-" ELSE s[i] \in hex
            shorthand == /\ Len(s) >= 10
                         /\ SubSeq(s, 1, 10) = <<"t","e","s","t","-","u","u","i","d","-">>
                         /\ Cardinality({i \in 1..Len(s) : s[i] = "-"}) = 2
        IN  /\ probe.is_uuid <=> (canonical \/ shorthand)
            /\ (last.queries[1] = NameLookup) <=> ~(canonical \/ shorthand)


\* C13: at POST /api/probability a non-positive frequency, an invalid time
\* pattern and an unknown station each yield status 400 with the engine's
\* message as detail; every failure that is not a ValueError yields status
\* 500 with the fixed detail, which differs from the error's own message.
EndpointMapsErrors ==
    response.status # 0 =>
        /\ last.riding_frequency <= 0 =>
              /\ response.status = 400
              /\ response.detail = <<"Riding frequency must be a positive number">>
        /\ (/\ last.riding_frequency > 0
            /\ last.time_pattern \notin {"weekday", "weekend", "both"}) =>
              /\ response.status = 400
              /\ response.detail[1] = "Time pattern must be"
        /\ (/\ last.riding_frequency > 0
            /\ last.time_pattern \in {"weekday", "weekend", "both"}
            /\ IF is_uuid_format(last.home_station_id)
               THEN \A s \in stations : s.station_id # last.home_station_id
               ELSE /\ NameLookup \notin failing
                    /\ \A m \in station_mapping :
                          m.station_name # last.home_station_id) =>
              /\ response.status = 400
              /\ response.detail = <<"Station '", last.home_station_id,
                                     "' not found in database">>
        /\ (last.kind = "error" /\ last.error.type = "ValueError") =>
              /\ response.status = 400
              /\ response.detail = last.error.message
        /\ (last.kind = "error" /\ last.error.type # "ValueError") =>
              /\ response.status = 500
              /\ response.detail =
                     <<"Internal server error during probability calculation">>
              /\ response.detail # last.error.message
        /\ last.kind = "result" => response.status = 200

\* the store fails the name lookup and the endpoint answers 500
EndpointAnsweredInternalError ==
    /\ response.status = 500
    /\ last.kind = "error"
    /\ last.error.type = "StoreError"
    /\ failing = {NameLookup}
    /\ last.riding_frequency > 0


\* C14: no step in which the engine is called (directly or through
\* calculate_probability at the endpoint) changes the stations, the trips or
\* the station_mapping table, whatever the outcome of the call.
CallsLeaveStoreUntouched ==
    [][last'.kind # "none" =>
          /\ stations' = stations
          /\ trips' = trips
          /\ station_mapping' = station_mapping]_vars

\* a request answered over a store with rows, with the return rate degraded
\* to the default
DegradedRequestAnswered ==
    /\ response.status = 200
    /\ last.kind = "result"
    /\ stations # {}
    /\ station_mapping # {}
    /\ trips # {}
    /\ last.queries[Len(last.queries)] = Tier3Query
    /\ last.bike_patterns.bike_return_rate = Q(1, 10)


\* C15: with the store available, for each of weekday, weekend and both the
\* bike_return_rate of a result equals the number of distinct bikes that
\* leave the station on a trip passing the pattern filter and have a later
\* trip ending at the station that starts within seven days of the
\* departure's end, divided by the number of distinct bikes that leave the
\* station on a trip passing the filter.
ReturnRateIsExactRatio ==
    (/\ last.kind = "result"
     /\ failing = {}
     /\ last.time_pattern \in {"weekday", "weekend", "both"}) =>
        \A m \in station_mapping :
            m.uuid_station_id = last.home_station.station_id =>
                LET matches(t) ==
                        CASE last.time_pattern = "weekday" -> DOW(t.started_at) \in 1..5
                          [] last.time_pattern = "weekend" -> DOW(t.started_at) \in {0, 6}
                          [] last.time_pattern = "both" -> TRUE
                    departures == {t \in trips :
                                      /\ t.start_station_id = m.numeric_station_id
                                      /\ matches(t)}
                    returning == {x \in departures : \E t2 \in trips :
                                      /\ t2.bike_id = x.bike_id
                                      /\ t2.end_station_id = m.numeric_station_id
                                      /\ t2.started_at > x.ended_at
                                      /\ t2.started_at <= x.ended_at + 7 * 2}
                IN  departures # {} =>
                        /\ "bike_return_rate" \in DOMAIN last.bike_patterns
                        /\ last.bike_patterns.bike_return_rate =
                               Q(Cardinality({x.bike_id : x \in returning}),
                                 Cardinality({x.bike_id : x \in departures}))

StatisticsFailurePropagates ==
    (/\ last.kind # "none"
     /\ StatsQuery \in failing
     /\ \E i \in DOMAIN last.queries : last.queries[i] = StatsQuery) =>
        /\ last.kind = "error"
        /\ last.error.type # "ValueError"
        /\ Cardinality({i \in DOMAIN last.queries : last.queries[i] = StatsQuery}) = 1
        /\ response.status # 0 => response.status = 500

\* C18 as stated: the margin is 0.02 when total_trips > 10000, 0.05 when
\* 1000 < total_trips <= 10000 and 0.10 otherwise, and the bounds are
\* p - margin and p + margin clamped to [0, 1].
MarginByThousands ==
    (probe.op = "confidence" /\ probe.applied) =>
        LET m == IF probe.total_trips > 10000 THEN <<1, 50>>
                 ELSE IF probe.total_trips > 1000 THEN <<1, 20>>
                 ELSE <<1, 10>>
            lo == QSub(probe.probability, m)
            hi == QAdd(probe.probability, m)
        IN  /\ probe.lower = IF QLt(lo, QInt(0)) THEN QInt(0) ELSE lo
            /\ probe.upper = IF QLt(QInt(1), hi) THEN QInt(1) ELSE hi

\* C18 as amended: the margin is 0.10 when total_trips < 10, 0.05 when
\* 10 <= total_trips < 100 and 0.02 otherwise, and the bounds are p - margin
\* and p + margin clamped to [0, 1].
MarginByTensAndHundreds ==
    (probe.op = "confidence" /\ probe.applied) =>
        LET m == IF probe.total_trips < 10 THEN <<1, 10>>
                 ELSE IF probe.total_trips < 100 THEN <<1, 20>>
                 ELSE <<1, 50>>
            lo == QSub(probe.probability, m)
            hi == QAdd(probe.probability, m)
        IN  /\ probe.lower = IF QLt(lo, QInt(0)) THEN QInt(0) ELSE lo
            /\ probe.upper = IF QLt(QInt(1), hi) THEN QInt(1) ELSE hi

\* a station with exactly 100 trips gets the margin 0.02
HundredTripsGetSmallMargin ==
    /\ probe.op = "confidence"
    /\ probe.applied
    /\ probe.total_trips = 100
    /\ probe.probability = <<1, 2>>
    /\ probe.lower = <<12, 25>>
    /\ probe.upper = <<13, 25>>


\* C19: whenever a call returns a result, the identifier it resolved and
\* used as key into the statistics is the uuid_station_id of a
\* station_mapping row; a UUID-shaped identifier with a stations row and no
\* station_mapping row gets no result.
ResolvedIdentifierIsMapped ==
    last.kind = "result" =>
        \E m \in station_mapping : m.uuid_station_id = last.home_station.station_id

\* C20: when a name resolves through station_mapping to a UUID without a
\* stations row, the call raises the not-found error for the name right
\* after the statistics were loaded; neither the movement computation nor
\* the probability formula runs.
MappedButAbsentStationRaises ==
    (/\ last.kind # "none"
     /\ last.riding_frequency > 0
     /\ last.time_pattern \in {"weekday", "weekend", "both"}
     /\ ~is_uuid_format(last.home_station_id)
     /\ NameLookup \notin failing
     /\ \E m \in station_mapping :
           /\ m.station_name = last.home_station_id
           /\ \A s \in stations : s.station_id # m.uuid_station_id) =>
        /\ last.kind = "error"
        /\ last.error.type = "ValueError"
        /\ last.error.message = <<"Station '", last.home_station_id,
                                  "' not found in database">>
        /\ ~last.movement_ran
        /\ last.queries = <<NameLookup, StatsQuery>>
        /\ last.result = EmptyDict

\* the name is mapped, the stations table holds another station only
MappedNameWithoutStationRejected ==
    /\ last.kind = "error"
    /\ last.home_station_id = StationName1
    /\ \E m \in station_mapping : m.station_name = StationName1
    /\ stations # {}
    /\ \A s \in stations : s.station_id # TestUuid1
    /\ failing = {}
    /\ last.error.message = NotFoundMessage(StationName1)




\* C21: the movement computation, invoked with a time pattern other than
\* weekday, weekend and both, raises a validation error and returns no
\* dictionary computed without a day-of-week filter.
MovementValidatesPattern ==
    (/\ last.kind = "movement"
     /\ last.time_pattern \notin {"weekday", "weekend", "both"}) =>
        /\ last.error.type = "ValueError"
        /\ last.bike_patterns = EmptyDict


\* C22: in every result of the movement computation the rows of the per-bike
\* query are ranked by trip count descending, total_bikes_analyzed is their
\* number and at most 50, patterns holds at most 10 entries and is the prefix
\* of the ranking (no analyzed bike outside patterns has more trips than a bike
\* in patterns), and avg_trips_per_bike is the mean trip count of the analyzed
\* bikes; for a valid pattern the ranked counts are the bikes' departures under
\* the filter and no departing bike left out has more trips than a ranked one.
MovementRanksAndLimits ==
    (last.kind = "movement" /\ "patterns" \in DOMAIN last.bike_patterns) =>
        LET analyzed == last.analyzed
            sample == last.bike_patterns.patterns
            internal == {m.numeric_station_id :
                            m \in {x \in station_mapping :
                                      x.uuid_station_id = last.home_station_id}}
            departures == {t \in trips :
                /\ t.start_station_id \in internal
                /\ CASE last.time_pattern = "weekday" -> DOW(t.started_at) \in 1..5
                     [] last.time_pattern = "weekend" -> DOW(t.started_at) \in {0, 6}
                     [] OTHER -> TRUE}
            count(b) == Cardinality({t \in departures : t.bike_id = b})
            ranked == {analyzed[i].bike_id : i \in DOMAIN analyzed}
            total == SumOver(DOMAIN analyzed,
                             [i \in DOMAIN analyzed |-> analyzed[i].trip_count])
        IN  /\ \A i, j \in DOMAIN analyzed :
                  i < j => analyzed[i].trip_count >= analyzed[j].trip_count
            /\ Len(analyzed) <= 50
            /\ last.bike_patterns.total_bikes_analyzed = Len(analyzed)
            /\ Len(sample) <= 10
            /\ Len(sample) = IF Len(analyzed) < 10 THEN Len(analyzed) ELSE 10
            /\ \A i \in DOMAIN sample : sample[i] = analyzed[i]
            /\ \A i \in DOMAIN sample : \A j \in DOMAIN analyzed :
                  j > Len(sample) => sample[i].trip_count >= analyzed[j].trip_count
            /\ last.bike_patterns.avg_trips_per_bike =
                  IF Len(analyzed) = 0 THEN <<0, 1>> ELSE Q(total, Len(analyzed))
            /\ last.time_pattern \in {"weekday", "weekend", "both"} =>
                  /\ Cardinality(ranked) = Len(analyzed)
                  /\ Len(analyzed) =
                        IF Cardinality({t.bike_id : t \in departures}) < 50
                        THEN Cardinality({t.bike_id : t \in departures}) ELSE 50
                  /\ \A i \in DOMAIN analyzed :
                        /\ analyzed[i].trip_count = count(analyzed[i].bike_id)
                        /\ \A b \in {t.bike_id : t \in departures} \ ranked :
                              count(b) <= analyzed[i].trip_count

\* more than 50 bikes leave the station: 50 are analyzed, 10 are returned,
\* and the last bike returned has more trips than the last bike analyzed
FleetCutToFiftyAndTen ==
    /\ last.kind = "movement"
    /\ last.time_pattern = "both"
    /\ Cardinality({t.bike_id : t \in {x \in trips : x.start_station_id = "test_station_1"}}) > 50
    /\ last.bike_patterns.total_bikes_analyzed = 50
    /\ Len(last.bike_patterns.patterns) = 10
    /\ last.bike_patterns.patterns[10].trip_count > last.analyzed[50].trip_count


\* C23: when the station has no station_mapping row, or no trip leaves it
\* under the time-pattern filter, the movement computation (its queries being
\* answered) returns exactly {total_bikes_analyzed: 0, avg_trips_per_bike: 0,
\* bike_return_rate: 0, patterns: []}; it does not raise and issues neither
\* the tier-2 nor the tier-3 query.
ZeroShapeWithoutReturnRateQuery ==
    (/\ last.kind = "movement"
     /\ last.time_pattern \in {"weekday", "weekend", "both"}
     /\ MappingLookup \notin failing
     /\ \/ \A m \in station_mapping : m.uuid_station_id # last.home_station_id
        \/ /\ PerBikeQuery \notin failing
           /\ \A m \in station_mapping : \A t \in trips :
                 (/\ m.uuid_station_id = last.home_station_id
                  /\ t.start_station_id = m.numeric_station_id) =>
                     CASE last.time_pattern = "weekday" -> DOW(t.started_at) \notin 1..5
                       [] last.time_pattern = "weekend" -> DOW(t.started_at) \notin {0, 6}
                       [] last.time_pattern = "both" -> FALSE) =>
        /\ last.bike_patterns =
              [total_bikes_analyzed |-> 0, avg_trips_per_bike |-> <<0, 1>>,
               bike_return_rate |-> <<0, 1>>, patterns |-> <<>>]
        /\ last.error.type = "none"
        /\ \A i \in DOMAIN last.queries :
              last.queries[i] \notin {Tier2Query, Tier3Query}

\* a mapped station whose trips all leave on weekdays, asked for the weekend
NoWeekendDepartureGivesZeroShape ==
    /\ last.kind = "movement"
    /\ last.time_pattern = "weekend"
    /\ \E m \in station_mapping : \E t \in trips :
          /\ m.uuid_station_id = last.home_station_id
          /\ t.start_station_id = m.numeric_station_id
    /\ last.queries = <<MappingLookup, PerBikeQuery>>
    /\ failing = {}
    /\ last.bike_patterns.total_bikes_analyzed = 0
    /\ last.bike_patterns.patterns = <<>>


\* C24: the statistics a call loads, the store answering the query, hold one
\* entry per stations row, keyed by the public identifier; a station without
\* departing trips (no mapping row, or no trip starting at its internal id)
\* has total_trips, unique_bikes and avg_trip_duration 0, and for the others
\* total_trips is the number of trips whose start_station_id is the mapped
\* internal id.
StatisticsCoverEveryStation ==
    (/\ last.kind # "none"
     /\ response = NoResponse
     /\ StatsQuery \notin failing
     /\ \E i \in DOMAIN last.queries : last.queries[i] = StatsQuery) =>
        /\ DOMAIN station_stats = {s.station_id : s \in stations}
        /\ \A s \in stations :
              LET row == station_stats[s.station_id]
                  internal == {m.numeric_station_id :
                                  m \in {x \in station_mapping :
                                            x.uuid_station_id = s.station_id}}
                  departing == {t \in trips : t.start_station_id \in internal}
              IN  /\ row.station_id = s.station_id
                  /\ row.name = s.name
                  /\ row.total_trips = Cardinality(departing)
                  /\ departing = {} =>
                        /\ row.total_trips = 0
                        /\ row.unique_bikes = 0
                        /\ row.avg_trip_duration = <<0, 1>>
                  /\ departing # {} => row.unique_bikes > 0

\* two stations, one without a mapping row; of the two trips in the store
\* one leaves the mapped station and one arrives at it
MappedAndUnmappedStationLoaded ==
    /\ last.kind = "result"
    /\ response = NoResponse
    /\ failing = {}
    /\ DOMAIN station_stats = {TestUuid1, CanonUuid}
    /\ station_stats[TestUuid1].total_trips = 1
    /\ station_stats[CanonUuid].total_trips = 0
    /\ \E t \in trips : t.end_station_id = "test_station_1"


\* C25: the message of the explanation is picked by the probability p of the
\* result: "quite low" for p < 0.05, "moderate" for 0.05 <= p < 0.15,
\* "relatively high" for 0.15 <= p < 0.30 and "quite high" for p >= 0.30;
\* every p in [0, 1] gets exactly one of the four.
ExplanationBandedByProbability ==
    last.kind = "result" =>
        LET n == last.result.probability[1]
            d == last.result.probability[2]
            band == last.result.explanation.band
        IN  /\ d > 0
            /\ band \in {"quite low", "moderate", "relatively high", "quite high"}
            /\ (band = "quite low") <=> (100 * n < 5 * d)
            /\ (band = "moderate") <=> (5 * d <= 100 * n /\ 100 * n < 15 * d)
            /\ (band = "relatively high") <=> (15 * d <= 100 * n /\ 100 * n < 30 * d)
            /\ (band = "quite high") <=> (30 * d <= 100 * n)

\* a probability of exactly 0.15 gets the "relatively high" message
FifteenPercentIsRelativelyHigh ==
    /\ last.kind = "result"
    /\ last.result.probability = <<3, 20>>
    /\ last.result.explanation.band = "relatively high"


\* C26: every outcome of a call on the calculator instance, whatever calls
\* and store changes came before it, is the outcome of calculate_probability
\* (a calculator built for the one request) for the same parameters on the
\* store as it is; a result carries the station's statistics of the store as
\* it is, loaded by a query the store answered during that call, never the
\* statistics the instance kept from an earlier call.
NoLeakBetweenCalls ==
    (last.kind # "none" /\ response = NoResponse) =>
        /\ \E order \in BikeOrders :
              last = calculate_probability(last.home_station_id, last.riding_frequency,
                                           last.time_pattern, order)
        /\ last.kind = "result" =>
              LET u == last.home_station.station_id
                  internal == {m.numeric_station_id :
                                  m \in {x \in station_mapping : x.uuid_station_id = u}}
                  departing == {t \in trips : t.start_station_id \in internal}
              IN  /\ StatsQuery \notin failing
                  /\ \E s \in stations : s.station_id = u
                  /\ last.result.station_info.total_trips = Cardinality(departing)
                  /\ last.result.station_info.unique_bikes =
                        Cardinality({t.bike_id : t \in departing})

\* the instance holds statistics of the station from an earlier call, the
\* store has got a trip since, the statistics query fails, and the call does
\* not answer from the statistics it holds
StaleStatisticsNotUsed ==
    /\ last.kind = "error"
    /\ response = NoResponse
    /\ last.home_station_id = TestUuid1
    /\ last.riding_frequency > 0
    /\ last.time_pattern = "both"
    /\ StatsQuery \in failing
    /\ TestUuid1 \in DOMAIN station_stats
    /\ station_stats[TestUuid1].total_trips <
          Cardinality({t \in trips : t.start_station_id = "test_station_1"})


\* C27: every call ends with a result or an error after at most six queries:
\* the name lookup, the statistics aggregate, the mapping lookup, the per-bike
\* aggregate, the tier-2 query and the tier-3 query, in this order, each at
\* most once.
BoundedQuerySequence ==
    last.kind \in {"result", "error"} =>
        LET rank(q) == CASE q = NameLookup -> 1
                         [] q = StatsQuery -> 2
                         [] q = MappingLookup -> 3
                         [] q = PerBikeQuery -> 4
                         [] q = Tier2Query -> 5
                         [] q = Tier3Query -> 6
        IN  /\ Len(last.queries) <= 6
            /\ \A i \in DOMAIN last.queries :
                  last.queries[i] \in {NameLookup, StatsQuery, MappingLookup,
                                       PerBikeQuery, Tier2Query, Tier3Query}
            /\ \A i, j \in DOMAIN last.queries :
                  i < j => rank(last.queries[i]) < rank(last.queries[j])

\* a call by name whose tier-2 query fails issues all six queries
AllSixQueriesIssued ==
    /\ last.kind = "result"
    /\ last.queries = <<NameLookup, StatsQuery, MappingLookup, PerBikeQuery,
                        Tier2Query, Tier3Query>>


\* C28: for a station with total_trips > 0 and unique_bikes > 0, the store
\* and the pattern fixed, the probability for f + 1 rides is larger than the
\* one for f rides for f = 1 .. 9 as long as the product of the four factors
\* for f + 1 stays below 1; from f = 10 on it no longer changes; and the
\* probabilities for 1, 3, 5, 7 and 10 rides are not all equal.
StrictlyIncreasingUpToTen ==
    (/\ prev.kind = "result"
     /\ last.kind = "result"
     /\ last.home_station = prev.home_station
     /\ last.bike_patterns = prev.bike_patterns
     /\ last.time_pattern = prev.time_pattern
     /\ last.riding_frequency = prev.riding_frequency + 1
     /\ prev.riding_frequency >= 1
     /\ last.home_station.total_trips > 0
     /\ last.home_station.unique_bikes > 0) =>
        LET T == last.home_station.total_trips
            U == last.home_station.unique_bikes
            rr == IF "bike_return_rate" \in DOMAIN last.bike_patterns
                  THEN last.bike_patterns.bike_return_rate ELSE <<0, 1>>
            tm == CASE last.time_pattern = "weekday" -> <<6, 5>>
                    [] last.time_pattern = "weekend" -> <<4, 5>>
                    [] last.time_pattern = "both" -> <<1, 1>>
            \* base * (f / 5) * (1 + 2 rr) * tm as a fraction num(f) / den
            baseN == IF 10 * T < 3 * U * 1000 THEN T ELSE 3
            baseD == IF 10 * T < 3 * U * 1000 THEN U * 1000 ELSE 10
            num(f) == baseN * f * (rr[2] + 2 * rr[1]) * tm[1]
            den == baseD * 5 * rr[2] * tm[2]
            p(f) == _calculate_encounter_probability(
                        last.home_station, last.bike_patterns, f, last.time_pattern)
        IN  /\ (prev.riding_frequency <= 9 /\ num(last.riding_frequency) < den) =>
                  QLt(prev.result.probability, last.result.probability)
            /\ prev.riding_frequency >= 10 =>
                  prev.result.probability = last.result.probability
            /\ Cardinality({p(f) : f \in {1, 3, 5, 7, 10}}) > 1

\* nine rides and then ten: the probability still grows
ProbabilityGrowsFromNineToTen ==
    /\ prev.kind = "result"
    /\ last.kind = "result"
    /\ last.home_station = prev.home_station
    /\ prev.riding_frequency = 9
    /\ last.riding_frequency = 10
    /\ QLt(prev.result.probability, last.result.probability)
    /\ QLt(last.result.probability, <<1, 1>>)


\* C29: the tier-3 query is issued only right after the tier-2 query, and
\* only when the tier-2 query raised; when the tier-2 query is answered no
\* query follows it and the rate is bikes returning / bikes departing, or 0
\* when no bike departs; every tier-2 rate lies in [0, 1] and every estimate
\* tier 3 computes from a station's turnover lies in (0, 0.5].
TiersRunInOrder ==
    last.kind \in {"movement", "return_rate"} =>
        LET qs == last.queries
            issued(q) == \E i \in DOMAIN qs : qs[i] = q
            internal == IF last.kind = "return_rate" THEN {last.numeric_station_id}
                        ELSE {m.numeric_station_id :
                                 m \in {x \in station_mapping :
                                           x.uuid_station_id = last.home_station_id}}
            departures == {t \in trips :
                /\ t.start_station_id \in internal
                /\ CASE last.time_pattern = "weekday" -> DOW(t.started_at) \in 1..5
                     [] last.time_pattern = "weekend" -> DOW(t.started_at) \in {0, 6}
                     [] OTHER -> TRUE}
            bikes == {t.bike_id : t \in departures}
            returning == {b \in bikes : \E t1 \in departures : \E t2 \in trips :
                            /\ t1.bike_id = b
                            /\ t2.bike_id = b
                            /\ t2.end_station_id \in internal
                            /\ t2.started_at > t1.ended_at
                            /\ t2.started_at <= t1.ended_at + 14}
            rate == last.bike_patterns.bike_return_rate
        IN  /\ issued(Tier3Query) =>
                  /\ QueryRaises(Tier2Query, last.time_pattern)
                  /\ Len(qs) >= 2
                  /\ qs[Len(qs)] = Tier3Query
                  /\ qs[Len(qs) - 1] = Tier2Query
            /\ (issued(Tier2Query) /\ QueryRaises(Tier2Query, last.time_pattern)) =>
                  issued(Tier3Query)
            /\ (issued(Tier2Query) /\ ~QueryRaises(Tier2Query, last.time_pattern)) =>
                  /\ qs[Len(qs)] = Tier2Query
                  /\ rate = IF bikes = {} THEN <<0, 1>>
                            ELSE Q(Cardinality(returning), Cardinality(bikes))
                  /\ rate[1] >= 0 /\ rate[1] <= rate[2]
            /\ (/\ issued(Tier3Query)
                /\ ~QueryRaises(Tier3Query, last.time_pattern)
                /\ bikes # {}) =>
                  /\ rate[1] > 0
                  /\ 2 * rate[1] <= rate[2]

\* the tier-2 query raised and tier 3 answered with its estimate, here 0.5
TierThreeAnsweredAfterTierTwoRaised ==
    /\ last.kind = "movement"
    /\ failing = {Tier2Query}
    /\ last.time_pattern = "both"
    /\ last.queries = <<MappingLookup, PerBikeQuery, Tier2Query, Tier3Query>>
    /\ last.bike_patterns.total_bikes_analyzed > 0
    /\ last.bike_patterns.bike_return_rate = <<1, 2>>


\* C30: when the mapping lookup or the per-bike aggregate raises inside the
\* movement computation of a valid request for a known station, the
\* computation hands back an empty dictionary and the call still returns a
\* complete result, with the return rate taken as 0 in the probability and
\* shown as 0.0% in the explanation.
MovementFailureGivesZeroRate ==
    (/\ last.kind \in {"result", "error"}
     /\ last.riding_frequency > 0
     /\ last.time_pattern \in {"weekday", "weekend", "both"}
     /\ StatsQuery \notin failing
     /\ \E s \in stations :
           /\ \/ /\ is_uuid_format(last.home_station_id)
                 /\ s.station_id = last.home_station_id
              \/ /\ ~is_uuid_format(last.home_station_id)
                 /\ NameLookup \notin failing
                 /\ \E m \in station_mapping :
                       /\ m.station_name = last.home_station_id
                       /\ m.uuid_station_id = s.station_id
           /\ \/ MappingLookup \in failing
              \/ /\ PerBikeQuery \in failing
                 /\ \E m \in station_mapping : m.uuid_station_id = s.station_id) =>
        LET T == last.home_station.total_trips
            U == last.home_station.unique_bikes
            f == last.riding_frequency
            tm == CASE last.time_pattern = "weekday" -> <<6, 5>>
                    [] last.time_pattern = "weekend" -> <<4, 5>>
                    [] last.time_pattern = "both" -> <<1, 1>>
            product == QMul(QMul(QMin(<<3, 10>>, Q(T, U * 1000)), QMin(<<2, 1>>, Q(f, 5))),
                            tm)
        IN  /\ last.kind = "result"
            /\ last.bike_patterns = EmptyDict
            /\ last.queries[Len(last.queries)] \in {MappingLookup, PerBikeQuery}
            /\ last.queries[Len(last.queries)] \in failing
            /\ DOMAIN last.result =
                  {"probability", "confidence_interval", "explanation", "station_info"}
            /\ last.result.probability =
                  IF T = 0 \/ U = 0 THEN <<0, 1>>
                  ELSE IF QLt(<<1, 1>>, product) THEN <<1, 1>> ELSE product
            /\ last.result.explanation.return_rate = FormatPercent(<<0, 1>>)

\* the per-bike query fails for a station with trips: the result carries a
\* positive probability computed without a return rate
PerBikeFailureStillAnswered ==
    /\ last.kind = "result"
    /\ failing = {PerBikeQuery}
    /\ last.queries[Len(last.queries)] = PerBikeQuery
    /\ last.bike_patterns = EmptyDict
    /\ last.home_station.total_trips > 0
    /\ QLt(<<0, 1>>, last.result.probability)

=============================================================================
